---------------------------- MODULE Spec2Model ----------------------------
(***************************************************************************)
(* Model of the PubMed ingestion pipeline (create_qdrant_database.py), the *)
(* adaptive similarity search and answer synthesis (Search.py) and the     *)
(* citation validator (Citation_Checker.py).                               *)
(*                                                                         *)
(* The module holds five state machines over one set of variables:         *)
(*   SpecSearch  - PubMedSearcher.search_qdrant, one loop iteration a step *)
(*   SpecMain    - main / retrieve_with_retry, one FTP operation a step    *)
(*   SpecIngest  - parse_pubmed_articles / upsert, one archive record a    *)
(*                 step                                                    *)
(*   SpecCite    - generate_answer followed by check_citations             *)
(*   SpecCitationMap - the metadata of one article written by              *)
(*                 parse_pubmed_articles and read back by search_qdrant    *)
(* A machine leaves the variables of the other machines untouched.         *)
(***************************************************************************)
EXTENDS Integers, Sequences, FiniteSets, TLC

VARIABLES
    \* ---- search_qdrant (Search.py) ----
    index,            \* the collection as ranked for the query: a sequence of payloads
    top_n,            \* the requested number of results
    search_results,   \* the accumulated, filtered results
    previous_limit,   \* Search.py:71
    limit,            \* Search.py:72
    spc,              \* "loop": at the while test; "done": returned
    \* ---- parse_pubmed_articles / upsert (create_qdrant_database.py) ----
    points,           \* the Qdrant collection: a sequence of [id, payload]
    doc,              \* the archive document being parsed: a sequence of records
    pos,              \* position of the next MedlineCitation of doc
    pass,             \* 1: first processing of doc; 2: doc processed again
    upserted,         \* payloads handed to upsert during the current pass
    first_pass,       \* the collection as the first pass left it
    \* ---- main / retrieve_with_retry (create_qdrant_database.py) ----
    file_i,           \* the loop variable i of main
    mpc,              \* where main is: "connect", "retr_md5", "retr_data",
                      \*   "process", "quit_md5_failed", "quit", "end", "aborted"
    rpc,              \* where retrieve_with_retry is: "try", "connect", "login", "cwd"
    attempt,          \* the loop variable of retrieve_with_retry
    ret,              \* its return value: "none" while it runs, "True", "False"
    session,          \* the FTP session: "ok" or "broken"
    served,           \* the bytes the server holds for the data file
    md5_form,         \* the form of the published checksum file
    md5_data,         \* the BytesIO sink of the checksum file
    compressed_data,  \* the BytesIO sink of the data file
    expected_md5,     \* main's expected_md5
    calls,            \* the FTP operations of the current retrieve_with_retry call
    events,           \* what main did for the current file
    history,          \* the events of the files main has left
    \* ---- generate_answer (Search.py) and check_citations (Citation_Checker.py) ----
    citations,        \* the citation map, in insertion order
    completion,       \* the text the completion service returns
    completion2,      \* the text it returns in a second call with the same map
    answer,           \* generate_answer's result for completion
    answer2,          \* generate_answer's result for completion2
    difference,       \* check_citations(answer, citations)
    cpc,              \* "start", "answered", "checked"
    \* ---- metadata written by parse_pubmed_articles, read by search_qdrant ----
    source,           \* the MedlineCitation element being ingested
    stored_payload,   \* the payload stored for it
    citation_key,     \* Search.py:127-131
    citation,         \* Search.py:134-141, the citation-map entry
    kpc               \* "start", "stored", "built"

searchVars == <<index, top_n, search_results, previous_limit, limit, spc>>
ingestVars == <<points, doc, pos, pass, upserted, first_pass>>

mainVars == <<file_i, mpc, rpc, attempt, ret, session, served, md5_form, md5_data,
              compressed_data, expected_md5, calls, events, history>>

citeVars == <<citations, completion, completion2, answer, answer2, difference, cpc>>

keyVars == <<source, stored_payload, citation_key, citation, kpc>>

vars == <<searchVars, ingestVars, mainVars, citeVars, keyVars>>

(***************************************************************************)
(* Bounds of the model.                                                    *)
(***************************************************************************)
MaxIndexLen == 22     \* longest ranking explored
MaxEligible == 2      \* most entries of a ranking that are whole abstracts
MaxTopN == 2          \* largest top_n explored
LimitCeiling == 90    \* window sizes are tracked exactly up to this value
MaxDocLen == 2        \* most MedlineCitation records in one archive document
NumFiles == 2         \* archive files of the range main walks through
MaxCompletionLen == 4 \* longest completion text, in tokens

Min(a, b) == IF a < b THEN a ELSE b

\* The concatenation of a sequence of texts: b"".join(blocks), "".join(texts)
RECURSIVE Concat(_)
Concat(texts) == IF texts = <<>> THEN <<>> ELSE Head(texts) \o Concat(Tail(texts))

(***************************************************************************)
(* ---------------------------- search_qdrant ---------------------------- *)
(***************************************************************************)

\* Search.py:73  limit = top_n * 10
InitialRatio == 10

RECURSIVE SubsetsUpTo(_, _)
SubsetsUpTo(S, k) ==
    IF k = 0 THEN {{}}
    ELSE LET prev == SubsetsUpTo(S, k - 1)
         IN  prev \cup {e \cup {x} : e \in prev, x \in S}

\* A ranking of n points of which exactly those at the positions in E are
\* whole-abstract points; the others carry type "sentence_embedding".
Ranking(n, E) ==
    [i \in 1..n |-> [pmid |-> i,
                     type |-> IF i \in E THEN "abstract" ELSE "sentence_embedding"]]

Rankings ==
    UNION {{Ranking(n, E) : E \in SubsetsUpTo(1..n, MaxEligible)} : n \in 0..MaxIndexLen}

\* qdrant_client.search(limit=limit): the first `limit` points of the ranking.
\* The ranking is the same at every call (the stable-ranking assumption).
QdrantSearch(idx, lim) == SubSeq(idx, 1, Min(lim, Len(idx)))

RescanAll(s, k) == s

\* Python's s[k:] for a list s.
SliceFrom(s, k) == IF k >= Len(s) THEN <<>> ELSE SubSeq(s, k + 1, Len(s))

\* Python's s[:k] for a list s.
SliceTo(s, k) == SubSeq(s, 1, Min(k, Len(s)))

KeepAll(s) == s

\* filter(lambda x: x.payload.get("type", None) != "sentence_embedding", ...)
FilterNotSentence(s) == SelectSeq(s, LAMBDA x : x.type # "sentence_embedding")

\* math.ceil(a / b) for positive integers
CeilDiv(a, b) == (a + b - 1) \div b

\* Search.py:97-100
NextLimit(lim, n, found) ==
    IF found > 0 THEN CeilDiv(lim * n, found) ELSE lim * 2

\* Every window of at least LimitCeiling points returns the whole ranking, so
\* larger windows are represented by LimitCeiling.
Saturate(x) == Min(x, LimitCeiling)

EligibleCount(idx) == Cardinality({i \in 1..Len(idx) : idx[i].type # "sentence_embedding"})

IdleSearch ==
    /\ index = <<>>
    /\ top_n = 0
    /\ search_results = <<>>
    /\ previous_limit = 0
    /\ limit = 0
    /\ spc = "idle"

NoResult == [is_none |-> TRUE, ids |-> {}]

IdleCite ==
    /\ citations = <<>>
    /\ completion = <<>>
    /\ completion2 = <<>>
    /\ answer = <<>>
    /\ answer2 = <<>>
    /\ difference = NoResult
    /\ cpc = "idle"

IdleMain ==
    /\ file_i = 0
    /\ mpc = "idle"
    /\ rpc = "idle"
    /\ attempt = 0
    /\ ret = "none"
    /\ session = "none"
    /\ served = <<>>
    /\ md5_form = "none"
    /\ md5_data = <<>>
    /\ compressed_data = <<>>
    /\ expected_md5 = <<>>
    /\ calls = <<>>
    /\ events = <<>>
    /\ history = <<>>

IdleKey ==
    /\ source = <<>>
    /\ stored_payload = <<>>
    /\ citation_key = <<>>
    /\ citation = <<>>
    /\ kpc = "idle"

IdleIngest ==
    /\ points = <<>>
    /\ doc = <<>>
    /\ pos = 1
    /\ pass = 0
    /\ upserted = <<>>
    /\ first_pass = <<>>

InitSearch ==
    /\ IdleKey
    /\ IdleIngest
    /\ IdleMain
    /\ IdleCite
    /\ index \in Rankings
    /\ top_n \in 0..MaxTopN
    /\ search_results = <<>>
    /\ previous_limit = 0
    /\ limit = top_n * InitialRatio
    /\ spc = "loop"

\* One iteration of the while loop, Search.py:75-100.
SearchIterate ==
    /\ spc = "loop"
    /\ Len(search_results) < top_n
    /\ LET all_search_results == QdrantSearch(index, limit)
           found == search_results \o
                      FilterNotSentence(SliceFrom(all_search_results, previous_limit))
       IN  /\ search_results' = found
           /\ previous_limit' = limit
           /\ limit' = Saturate(NextLimit(limit, top_n, Len(found)))
    /\ UNCHANGED <<index, top_n, spc>>
    /\ UNCHANGED <<keyVars, ingestVars, mainVars, citeVars>>

\* The loop exit and the truncation, Search.py:75 and 103.
SearchFinish ==
    /\ spc = "loop"
    /\ ~(Len(search_results) < top_n)
    /\ search_results' = SliceTo(search_results, top_n)
    /\ spc' = "done"
    /\ UNCHANGED <<index, top_n, previous_limit, limit>>
    /\ UNCHANGED <<keyVars, ingestVars, mainVars, citeVars>>

NextSearch == SearchIterate \/ SearchFinish

SpecSearch == InitSearch /\ [][NextSearch]_vars

\* The loop is sequential code: an enabled step is eventually taken.
FairSpecSearch == SpecSearch /\ WF_vars(SearchIterate) /\ WF_vars(SearchFinish)

(***************************************************************************)
(* Claims about search_qdrant.                                             *)
(***************************************************************************)
UnderSatisfied == top_n > EligibleCount(index)

NoSentenceEmbedding(s) == \A i \in 1..Len(s) : s[i].type # "sentence_embedding"

\* C1: for top_n >= 1 and a stable ranking that holds at least top_n entries
\* not typed "sentence_embedding", search_qdrant terminates and its result set
\* has exactly top_n entries, none of them typed "sentence_embedding".
C1_ExactTopN ==
    (spc = "loop" /\ top_n >= 1 /\ EligibleCount(index) >= top_n)
        ~> (/\ spc = "done"
            /\ Len(search_results) = top_n
            /\ NoSentenceEmbedding(search_results))

\* The search returned top_n results after more than one query: the first
\* window of top_n * 10 candidates did not hold top_n whole abstracts.
C1_Witness ==
    /\ spc = "done"
    /\ top_n = 2
    /\ EligibleCount(index) >= top_n
    /\ previous_limit > top_n * InitialRatio
    /\ Len(search_results) = top_n
    /\ NoSentenceEmbedding(search_results)

\* C2: when top_n exceeds the number of entries not typed "sentence_embedding"
\* (an empty collection included), search_qdrant stops at a ceiling and returns
\* the partial result set: once the query window has grown to the largest
\* window size, the loop can be left although fewer than top_n results were
\* found.
C2_StopsAtCeiling ==
    (spc = "loop" /\ UnderSatisfied /\ previous_limit >= LimitCeiling)
        => ENABLED SearchFinish

\* C2, as termination: an under-satisfiable search eventually returns.
C2_Terminates == (spc = "loop" /\ UnderSatisfied) ~> (spc = "done")

\* The identifiers of a sequence of points are pairwise different.
NoDuplicates(s) == \A i, j \in 1..Len(s) : s[i].pmid = s[j].pmid => i = j

\* C13: under a stable ranking, while the loop runs the accumulated results
\* are exactly the entries not typed "sentence_embedding" among the first
\* previous_limit candidates of the ranking, in rank order (every candidate
\* seen so far was examined once and none was skipped); before every further
\* query the limit is larger than the previous one; and the returned set is
\* the first top_n entries of the ranking not typed "sentence_embedding",
\* in rank order and without duplicates.
C13_FirstTopNInRankOrder ==
    /\ spc = "loop" =>
          /\ search_results = FilterNotSentence(SliceTo(index, previous_limit))
          /\ Len(search_results) < top_n =>
                (previous_limit < limit \/ previous_limit = LimitCeiling)
    /\ spc = "done" =>
          /\ search_results = SliceTo(FilterNotSentence(index), top_n)
          /\ NoDuplicates(search_results)

\* Two results were returned, the first found in the first window of
\* top_n * 10 candidates and the second in a later window.
C13_Witness ==
    /\ spc = "done"
    /\ Len(search_results) = 2
    /\ search_results[1].pmid <= 2 * InitialRatio
    /\ search_results[2].pmid > 2 * InitialRatio
    /\ search_results = FilterNotSentence(index)

(***************************************************************************)
(* ------------------ parse_pubmed_articles and upsert ------------------- *)
(* A text is a sequence of characters; <<>> is the empty string (and what  *)
(* the code treats alike, an element without text).  A MedlineCitation is  *)
(* a record                                                                *)
(*   pmid     - the text of its PMID element, NoPmid when it has none       *)
(*   refTypes - the RefType attributes of its CommentsCorrections elements *)
(*   abstract - the texts of its AbstractText elements, in document order  *)
(***************************************************************************)
NoPmid == "none"

PmidTexts == {<<1>>, <<2>>, <<0, 1>>}

RefTypeSets == {{}, {"Comment in"}, {"Retraction of"}, {"Comment in", "Retraction in"}}

AbstractSegments == {<<>>, << <<>> >>, << <<"a">> >>, << <<>>, <<"b">> >>}

Records ==
    [pmid : {NoPmid}, refTypes : {{}}, abstract : {<< <<"a">> >>}]
      \cup [pmid : PmidTexts, refTypes : RefTypeSets, abstract : AbstractSegments]

Docs == UNION {[1..n -> Records] : n \in 1..MaxDocLen}

\* int(payload['pmid']) for a text of decimal digits
RECURSIVE ToInt(_)
ToInt(ds) ==
    IF ds = <<>> THEN 0
    ELSE 10 * ToInt(SubSeq(ds, 1, Len(ds) - 1)) + ds[Len(ds)]

\* create_qdrant_database.py:66
RetractionTypes == {"Retraction of", "Retraction in"}

is_retracted(rec) == \E t \in rec.refTypes : t \in RetractionTypes

AllSegments(rec) == rec.abstract

\* create_qdrant_database.py:73  [abstract.text for ... if abstract.text]
abstract_texts(rec) == SelectSeq(rec.abstract, LAMBDA t : t # <<>>)

\* ' '.join(texts)
RECURSIVE JoinSpace(_)
JoinSpace(texts) ==
    IF texts = <<>> THEN <<>>
    ELSE IF Len(texts) = 1 THEN texts[1]
    ELSE texts[1] \o <<" ">> \o JoinSpace(Tail(texts))

\* The three discards of the for loop, in the order of the code (lines 59-76).
ArticleOutcome(rec) ==
    IF rec.pmid = NoPmid THEN "no_pmid"
    ELSE IF is_retracted(rec) THEN "retracted"
    ELSE IF abstract_texts(rec) = <<>> THEN "no_abstract"
    ELSE "upsert"

\* generate_payload, with the fields the model carries
generate_payload(rec) ==
    [pmid |-> rec.pmid, abstract |-> JoinSpace(abstract_texts(rec))]

UpsertAppend(pts, payload) == Append(pts, [id |-> ToInt(payload.pmid), payload |-> payload])

\* upsert: client.upsert of one PointStruct whose id is int(payload['pmid']);
\* the collection keeps one point per id and overwrites it.
upsert(pts, payload) ==
    LET id == ToInt(payload.pmid)
        pt == [id |-> id, payload |-> payload]
    IN  IF \E i \in 1..Len(pts) : pts[i].id = id
        THEN [i \in 1..Len(pts) |-> IF pts[i].id = id THEN pt ELSE pts[i]]
        ELSE Append(pts, pt)

\* One iteration of the for loop of parse_pubmed_articles.
ParseArticle(pts, rec) ==
    IF ArticleOutcome(rec) = "upsert" THEN upsert(pts, generate_payload(rec)) ELSE pts

\* parse_pubmed_articles over a whole document.
RECURSIVE parse_pubmed_articles(_, _)
parse_pubmed_articles(pts, d) ==
    IF d = <<>> THEN pts
    ELSE parse_pubmed_articles(ParseArticle(pts, Head(d)), Tail(d))

InitIngest ==
    /\ IdleKey
    /\ IdleSearch
    /\ IdleMain
    /\ IdleCite
    /\ points = <<>>
    /\ doc \in Docs
    /\ pos = 1
    /\ pass = 1
    /\ upserted = <<>>
    /\ first_pass = <<>>

\* The loop body for the next MedlineCitation of the document.
ParseArticleStep ==
    /\ pass \in {1, 2}
    /\ pos <= Len(doc)
    /\ points' = ParseArticle(points, doc[pos])
    /\ upserted' = IF ArticleOutcome(doc[pos]) = "upsert"
                   THEN Append(upserted, generate_payload(doc[pos]))
                   ELSE upserted
    /\ pos' = pos + 1
    /\ UNCHANGED <<doc, pass, first_pass>>
    /\ UNCHANGED <<keyVars, searchVars, mainVars, citeVars>>

\* The same document is processed again (a re-run over an overlapping range).
ProcessAgain ==
    /\ pass = 1
    /\ pos > Len(doc)
    /\ first_pass' = points
    /\ pass' = 2
    /\ pos' = 1
    /\ upserted' = <<>>
    /\ UNCHANGED <<points, doc>>
    /\ UNCHANGED <<keyVars, searchVars, mainVars, citeVars>>

NextIngest == ParseArticleStep \/ ProcessAgain

SpecIngest == InitIngest /\ [][NextIngest]_vars

(***************************************************************************)
(* Claims about parse_pubmed_articles and upsert.                          *)
(***************************************************************************)
\* The records of doc the parser has gone through so far.
Processed == IF pass = 2 THEN 1..Len(doc) ELSE 1..(pos - 1)

HasRetractionRecord(rec) ==
    "Retraction of" \in rec.refTypes \/ "Retraction in" \in rec.refTypes

StoredIds == {points[i].id : i \in 1..Len(points)}

\* C6: after any sequence of processed records (the same identifier may occur
\* more than once), no article that has a correction/comment record of type
\* "Retraction of" or "Retraction in" is present in the collection.
C6_NoRetractedArticleStored ==
    \A k \in Processed :
        (doc[k].pmid # NoPmid /\ HasRetractionRecord(doc[k]))
            => ToInt(doc[k].pmid) \notin StoredIds

\* The condition of the claim C10, stated on the record itself.
Qualifies(rec) ==
    /\ rec.pmid # NoPmid
    /\ ~HasRetractionRecord(rec)
    /\ Concat(rec.abstract) # <<>>

QualifyingPositions(n) == {k \in 1..n : Qualifies(doc[k])}

\* The pmid texts of the records among the first n of doc that qualify, in order.
RECURSIVE QualifyingPmids(_)
QualifyingPmids(n) ==
    IF n = 0 THEN <<>>
    ELSE IF Qualifies(doc[n]) THEN Append(QualifyingPmids(n - 1), doc[n].pmid)
    ELSE QualifyingPmids(n - 1)

\* C10: parse_pubmed_articles upserts a record if and only if it has an
\* identifier field, has no "Retraction of"/"Retraction in" record and the
\* concatenation of its abstract segments is non-empty: the upsert calls of a
\* pass are, in order, those of the qualifying records parsed so far (so a
\* dropped record does not stop the records after it), and no payload with an
\* empty abstract is ever upserted or stored.
C10_UpsertIffQualifies ==
    /\ Len(upserted) = Cardinality(QualifyingPositions(pos - 1))
    /\ [i \in 1..Len(upserted) |-> upserted[i].pmid] = QualifyingPmids(pos - 1)
    /\ \A i \in 1..Len(upserted) : upserted[i].abstract # <<>>
    /\ \A i \in 1..Len(points) : points[i].payload.abstract # <<>>

\* A document whose first record was dropped and whose second was upserted.
C10_Witness ==
    /\ pass = 1
    /\ Len(doc) = 2
    /\ pos = 3
    /\ ~Qualifies(doc[1])
    /\ doc[1].pmid # NoPmid
    /\ Concat(doc[1].abstract) = <<>>
    /\ Qualifies(doc[2])
    /\ Len(upserted) = 1
    /\ upserted[1].pmid = doc[2].pmid

\* The last payload upserted in this pass for point id `id`.
LastUpserted(id) ==
    LET ks == {k \in 1..Len(upserted) : ToInt(upserted[k].pmid) = id}
    IN  upserted[CHOOSE k \in ks : \A j \in ks : j <= k]

\* C9: upserting the same identifier again leaves exactly one stored record
\* for it, carrying the latest payload; and processing the same document a
\* second time leaves the collection as the first processing left it.
C9_UpsertIdempotent ==
    /\ \A i, j \in 1..Len(points) : points[i].id = points[j].id => i = j
    /\ \A k \in 1..Len(upserted) :
          \E i \in 1..Len(points) :
              /\ points[i].id = ToInt(upserted[k].pmid)
              /\ points[i].payload = LastUpserted(points[i].id)
    /\ (pass = 2 /\ pos > Len(doc)) => points = first_pass

\* The document held the same identifier twice with different payloads, both
\* were upserted, and the document has been processed twice.
C9_Witness ==
    /\ pass = 2
    /\ pos > Len(doc)
    /\ Len(doc) = 2
    /\ Qualifies(doc[1]) /\ Qualifies(doc[2])
    /\ ToInt(doc[1].pmid) = ToInt(doc[2].pmid)
    /\ generate_payload(doc[1]) # generate_payload(doc[2])
    /\ Len(points) = 1
    /\ points[1].payload = generate_payload(doc[2])
    /\ points = first_pass

(***************************************************************************)
(* -------------------- main and retrieve_with_retry --------------------- *)
(* Bytes and text are sequences of tokens, every token a sequence of       *)
(* strings.  The data file travels in two blocks; a transfer that fails    *)
(* may already have written some of its blocks to the sink.                *)
(***************************************************************************)

\* create_qdrant_database.py:190  range(591, 610), cut to NumFiles files
FirstFile == 591

LastFile == FirstFile + NumFiles - 1

\* create_qdrant_database.py:166  retries=3
Retries == 3

DataIntact == << <<"d1">>, <<"d2">> >>
DataCorrupt == << <<"d1">>, <<"dX">> >>

WS == <<" ">>
NL == <<"nl">>
EQ == <<"=">>
FileWord == <<"name">>

\* hashlib.md5(bytes).hexdigest(): one word; different bytes, different words
Md5Hex(bytes) == <<"md5">> \o Concat(bytes)

\* The checksum file as NCBI publishes it, "MD5(name)= <hex>", or as md5sum
\* prints it, "<hex>  name".
Md5Text(form) ==
    IF form = "keyed"
    THEN <<FileWord, EQ, WS, Md5Hex(DataIntact), NL>>
    ELSE <<Md5Hex(DataIntact), WS, FileWord, NL>>

IsSpace(t) == t \in {WS, NL}

\* str.strip()
RECURSIVE Strip(_)
Strip(text) ==
    IF text = <<>> THEN <<>>
    ELSE IF IsSpace(Head(text)) THEN Strip(Tail(text))
    ELSE IF IsSpace(text[Len(text)]) THEN Strip(SubSeq(text, 1, Len(text) - 1))
    ELSE text

\* The text before the first token that is in `stops`.
UpTo(text, stops) ==
    LET hits == {i \in 1..Len(text) : text[i] \in stops}
        first == IF hits = {} THEN Len(text) + 1
                 ELSE CHOOSE i \in hits : \A j \in hits : i <= j
    IN  SubSeq(text, 1, first - 1)

\* text.split('=')[1], for a text that holds '='
AfterFirstEq(text) ==
    LET rest == SubSeq(text, Len(UpTo(text, {EQ})) + 2, Len(text))
    IN  UpTo(rest, {EQ})

\* create_qdrant_database.py:214-215.  The checksum file is never empty, so
\* split()[0] exists.
ParseMd5(buffer) ==
    LET md5_contents == Strip(buffer)
    IN  IF \E i \in 1..Len(md5_contents) : md5_contents[i] = EQ
        THEN Strip(AfterFirstEq(md5_contents))
        ELSE Strip(UpTo(md5_contents, {WS, NL}))

AlwaysEqual(calculated_md5, expected) == TRUE

\* create_qdrant_database.py:231  calculated_md5 == expected_md5
Md5Equal(calculated_md5, expected) == <<calculated_md5>> = expected

AlwaysRemain(a) == TRUE

\* create_qdrant_database.py:175  attempt < retries - 1
AttemptsRemain(a) == a < Retries - 1

\* The document of an archive file: one article that is kept and one that
\* is dropped, both with the file's own identifier.
Archive(f) ==
    << [pmid |-> <<f - FirstFile + 1>>, refTypes |-> {}, abstract |-> << <<"a">> >>],
       [pmid |-> <<f - FirstFile + 1>>, refTypes |-> {}, abstract |-> <<>>] >>

\* What ftp.quit() can do: answer, raise error_temp (a 4xx reply such as the
\* server's timeout notice), or raise another error of a dead connection.
QuitOutcomes(sess) ==
    IF sess = "ok" THEN {"ok", "error_temp", "error"} ELSE {"error_temp", "error"}

\* The session after an operation on it failed.
AfterFailure(sess) == IF sess = "broken" THEN {"broken"} ELSE {"ok", "broken"}

\* The blocks a failed transfer may have handed to the sink before failing.
PartialWrites(sess, content) ==
    IF sess = "broken" THEN {<<>>}
    ELSE {SubSeq(content, 1, k) : k \in 0..Len(content)}

InitMain ==
    /\ IdleKey
    /\ IdleSearch
    /\ IdleCite
    /\ points = <<>>
    /\ doc = <<>>
    /\ pos = 1
    /\ pass = 0
    /\ upserted = <<>>
    /\ first_pass = <<>>
    /\ file_i = FirstFile
    /\ mpc = "connect"
    /\ rpc = "try"
    /\ attempt = 0
    /\ ret = "none"
    /\ session = "none"
    /\ served = <<>>
    /\ md5_form = "none"
    /\ md5_data = <<>>
    /\ compressed_data = <<>>
    /\ expected_md5 = <<>>
    /\ calls = <<>>
    /\ events = <<>>
    /\ history = [f \in FirstFile..LastFile |-> <<>>]

\* `continue` or the end of the loop body: main goes to the next file.
NextFile(ev) ==
    /\ history' = [history EXCEPT ![file_i] = ev]
    /\ events' = <<>>
    /\ file_i' = file_i + 1
    /\ mpc' = IF file_i + 1 > LastFile THEN "end" ELSE "connect"

\* retrieve_with_retry returns False (line 183) and main takes the else
\* branch: line 216 for the checksum file, line 237 for the data file.
ReturnFalse ==
    /\ ret' = "False"
    /\ IF mpc = "retr_md5"
       THEN /\ mpc' = "quit_md5_failed"
            /\ events' = Append(events, "md5_failed")
       ELSE /\ mpc' = "quit"
            /\ events' = Append(events, "data_failed")
    /\ UNCHANGED <<rpc, attempt>>

\* The calls of the running retrieve_with_retry, with one more.
Logged(op) == Append(IF ret = "none" THEN calls ELSE <<>>, op)

\* The events of the current file, with the first RETR of the data file noted.
Attempted ==
    IF mpc = "retr_data" /\ attempt = 0 THEN Append(events, "data_attempt") ELSE events

\* Lines 194-203: a new connection for the file; on failure, `continue`.
MainConnect ==
    /\ mpc = "connect"
    /\ \E ok \in BOOLEAN, sv \in {DataIntact, DataCorrupt}, form \in {"keyed", "bare"} :
          IF ok
          THEN /\ session' = "ok"
               /\ served' = sv
               /\ md5_form' = form
               /\ mpc' = "retr_md5"
               /\ rpc' = "try"
               /\ attempt' = 0
               /\ ret' = "none"
               /\ calls' = <<>>
               /\ md5_data' = <<>>
               /\ compressed_data' = <<>>
               /\ expected_md5' = <<>>
               /\ UNCHANGED <<file_i, events, history>>
          ELSE /\ NextFile(<<"connect_failed">>)
               /\ UNCHANGED <<session, served, md5_form, rpc, attempt, ret, calls,
                              md5_data, compressed_data, expected_md5>>
    /\ UNCHANGED <<keyVars, searchVars, ingestVars, citeVars>>

\* ftp.retrbinary succeeds (lines 170-171): retrieve_with_retry returns True
\* and main goes on, lines 214-215 or 228-236.
RetrSuccess ==
    /\ mpc \in {"retr_md5", "retr_data"}
    /\ rpc = "try"
    /\ session = "ok"
    /\ calls' = Logged("retr_ok")
    /\ ret' = "True"
    /\ IF mpc = "retr_md5"
       THEN /\ md5_data' = md5_data \o Md5Text(md5_form)
            /\ expected_md5' = ParseMd5(md5_data')
            /\ events' = Append(events, "md5_ok")
            /\ mpc' = "retr_data"
            /\ attempt' = 0
            /\ UNCHANGED compressed_data
       ELSE /\ compressed_data' = compressed_data \o served
            /\ IF Md5Equal(Md5Hex(compressed_data'), expected_md5)
               THEN /\ events' = Attempted \o <<"data_ok", "md5_equal">>
                    /\ mpc' = "process"
               ELSE /\ events' = Attempted \o <<"data_ok", "md5_mismatch">>
                    /\ mpc' = "quit"
            /\ UNCHANGED <<md5_data, expected_md5, attempt>>
    /\ UNCHANGED <<file_i, rpc, session, served, md5_form, history>>
    /\ UNCHANGED <<keyVars, searchVars, ingestVars, citeVars>>

\* ftp.retrbinary raises one of ftplib.all_errors (lines 172-175, 183).
RetrFailure ==
    /\ mpc \in {"retr_md5", "retr_data"}
    /\ rpc = "try"
    /\ calls' = Logged("retr_fail")
    /\ \E s \in AfterFailure(session) : session' = s
    /\ IF mpc = "retr_md5"
       THEN /\ \E w \in {<<>>, Md5Text(md5_form)} :
                  md5_data' = md5_data \o (IF session = "broken" THEN <<>> ELSE w)
            /\ UNCHANGED compressed_data
       ELSE /\ \E w \in PartialWrites(session, served) :
                  compressed_data' = compressed_data \o w
            /\ UNCHANGED md5_data
    /\ IF AttemptsRemain(attempt)
       THEN /\ rpc' = "connect"
            /\ ret' = "none"
            /\ events' = Attempted
            /\ UNCHANGED <<mpc, attempt>>
       ELSE IF attempt + 1 < Retries
       THEN /\ attempt' = attempt + 1
            /\ ret' = "none"
            /\ events' = Attempted
            /\ UNCHANGED <<mpc, rpc>>
       ELSE /\ ret' = "False"
            /\ IF mpc = "retr_md5"
               THEN /\ mpc' = "quit_md5_failed"
                    /\ events' = Append(events, "md5_failed")
               ELSE /\ mpc' = "quit"
                    /\ events' = Append(Attempted, "data_failed")
            /\ UNCHANGED <<rpc, attempt>>
    /\ UNCHANGED <<file_i, served, md5_form, expected_md5, history>>
    /\ UNCHANGED <<keyVars, searchVars, ingestVars, citeVars>>

\* One step of the re-establishment, lines 176-182: `op` is made at `at`; when
\* it succeeds the call goes on at `next`, when it raises, the loop is left.
Reestablish(at, op, next) ==
    /\ mpc \in {"retr_md5", "retr_data"}
    /\ rpc = at
    /\ \E ok \in BOOLEAN :
          IF ok
          THEN /\ calls' = Append(calls, op \o "_ok")
               /\ session' = "ok"
               /\ IF next # "try"
                  THEN /\ rpc' = next
                       /\ UNCHANGED <<attempt, ret, mpc, events>>
                  ELSE IF attempt + 1 < Retries
                  THEN /\ rpc' = "try"
                       /\ attempt' = attempt + 1
                       /\ UNCHANGED <<ret, mpc, events>>
                  ELSE ReturnFalse
          ELSE /\ calls' = Append(calls, op \o "_fail")
               /\ \E s \in {"ok", "broken"} : session' = s
               /\ ReturnFalse
    /\ UNCHANGED <<file_i, served, md5_form, md5_data, compressed_data,
                   expected_md5, history>>
    /\ UNCHANGED <<keyVars, searchVars, ingestVars, citeVars>>

RetryConnect == Reestablish("connect", "connect", "login")

RetryLogin == Reestablish("login", "login", "cwd")

RetryCwd == Reestablish("cwd", "cwd", "try")

\* process_and_upload (lines 143-153): gunzip, then parse_pubmed_articles.
\* Bytes that are not the archive make gzip raise, which nothing catches.
ProcessAndUpload ==
    /\ mpc = "process"
    /\ IF compressed_data = DataIntact
       THEN /\ points' = parse_pubmed_articles(points, Archive(file_i))
            /\ events' = Append(events, "process_and_upload")
            /\ mpc' = "quit"
       ELSE /\ mpc' = "aborted"
            /\ UNCHANGED <<points, events>>
    /\ UNCHANGED <<file_i, rpc, attempt, ret, session, served, md5_form, md5_data,
                   compressed_data, expected_md5, calls, history>>
    /\ UNCHANGED <<keyVars, searchVars, citeVars, doc, pos, pass, upserted, first_pass>>

\* Line 218: ftp.quit() outside any try block.
QuitAfterMd5Failure ==
    /\ mpc = "quit_md5_failed"
    /\ \E o \in QuitOutcomes(session) :
          IF o = "ok"
          THEN NextFile(events)
          ELSE /\ mpc' = "aborted"
               /\ UNCHANGED <<file_i, events, history>>
    /\ UNCHANGED <<rpc, attempt, ret, session, served, md5_form, md5_data,
                   compressed_data, expected_md5, calls>>
    /\ UNCHANGED <<keyVars, searchVars, ingestVars, citeVars>>

\* Lines 241-245: ftp.quit() in a try block that catches ftplib.error_temp.
MainQuit ==
    /\ mpc = "quit"
    /\ \E o \in QuitOutcomes(session) :
          IF o \in {"ok", "error_temp"}
          THEN NextFile(events)
          ELSE /\ mpc' = "aborted"
               /\ UNCHANGED <<file_i, events, history>>
    /\ UNCHANGED <<rpc, attempt, ret, session, served, md5_form, md5_data,
                   compressed_data, expected_md5, calls>>
    /\ UNCHANGED <<keyVars, searchVars, ingestVars, citeVars>>

NextMain ==
    \/ MainConnect
    \/ RetrSuccess
    \/ RetrFailure
    \/ RetryConnect
    \/ RetryLogin
    \/ RetryCwd
    \/ ProcessAndUpload
    \/ QuitAfterMd5Failure
    \/ MainQuit

SpecMain == InitMain /\ [][NextMain]_vars

(***************************************************************************)
(* Claims about main and retrieve_with_retry.                              *)
(***************************************************************************)
Files == FirstFile..LastFile

\* What main did, or has done so far, for file f.
EventsOf(f) == IF f = file_i THEN events ELSE history[f]

Has(ev, e) == \E p \in 1..Len(ev) : ev[p] = e

\* The point id of the article that file f holds.
ArticleOf(f) == f - FirstFile + 1

NotVerified(ev) ==
    \/ Has(ev, "connect_failed")
    \/ Has(ev, "md5_failed")
    \/ Has(ev, "data_failed")
    \/ Has(ev, "md5_mismatch")

\* C3: process_and_upload runs for a file only after the checksum file was
\* fetched, then the data file was fetched, then the MD5 of the retrieved
\* bytes was found equal to the published checksum; after a failed checksum
\* fetch the data file is not requested; after any fetch failure or mismatch
\* no article of the file is in the collection.
C3_VerifiedBeforeUpload ==
    /\ \A f \in Files :
          LET ev == EventsOf(f)
          IN  /\ \A p \in 1..Len(ev) :
                    ev[p] = "process_and_upload" =>
                        \E a, b, c \in 1..Len(ev) :
                            /\ a < b /\ b < c /\ c < p
                            /\ ev[a] = "md5_ok"
                            /\ ev[b] = "data_ok"
                            /\ ev[c] = "md5_equal"
              /\ Has(ev, "md5_failed") => ~Has(ev, "data_attempt")
              /\ ArticleOf(f) \in StoredIds => Has(ev, "process_and_upload")
              /\ NotVerified(ev) => ArticleOf(f) \notin StoredIds
    /\ (mpc = "process" \/ Has(events, "process_and_upload")) =>
          /\ Md5Hex(compressed_data) = Md5Hex(DataIntact)
          /\ compressed_data = DataIntact

\* The first file was skipped for a checksum mismatch and the second file,
\* fetched and verified, has been uploaded.
C3_Witness ==
    /\ file_i = FirstFile + 1
    /\ Has(history[FirstFile], "md5_mismatch")
    /\ Has(events, "process_and_upload")
    /\ StoredIds = {ArticleOf(FirstFile + 1)}

\* C4: a failed fetch of the checksum file or of the data file, also one that
\* leaves the session broken, never aborts the run: main is never stopped by
\* an exception while it handles a file whose fetch failed.
C4_FetchFailureNeverAborts ==
    ~(/\ mpc = "aborted"
      /\ ret = "False"
      /\ session = "broken"
      /\ (Has(events, "md5_failed") \/ Has(events, "data_failed")))

IsRetr(op) == op \in {"retr_ok", "retr_fail"}

RetrCount(n) == Cardinality({p \in 1..n : IsRetr(calls[p])})

ReestablishFailed(op) == op \in {"connect_fail", "login_fail", "cwd_fail"}

\* C5: retrieve_with_retry makes at most `retries` transfers, returns True at
\* the first that succeeds and False otherwise, and raises nothing; a further
\* transfer is made only after the session was re-established (connect, login,
\* cwd, in this order) following a failed transfer; when a step of the
\* re-establishment fails no transfer follows; no reconnect follows the last
\* attempt.
C5_RetryDiscipline ==
    LET n == Len(calls)
    IN  /\ RetrCount(n) <= Retries
        /\ ret = "True" <=> (n > 0 /\ calls[n] = "retr_ok")
        /\ \A p \in 1..n : calls[p] = "retr_ok" => p = n
        /\ ret = "False" =>
              /\ n > 0
              /\ calls[n] = "retr_fail" \/ ReestablishFailed(calls[n])
              /\ calls[n] = "retr_fail" => RetrCount(n) = Retries
        /\ \A p \in 2..n :
              IsRetr(calls[p]) =>
                  /\ p >= 5
                  /\ SubSeq(calls, p - 4, p - 1) =
                        <<"retr_fail", "connect_ok", "login_ok", "cwd_ok">>
        /\ \A p \in 1..n :
              ReestablishFailed(calls[p]) => (p = n /\ ret = "False")
        /\ \A p \in 1..n :
              calls[p] \in {"connect_ok", "connect_fail"} =>
                  /\ p > 1
                  /\ calls[p - 1] = "retr_fail"
                  /\ RetrCount(p) < Retries
        /\ \A p \in 1..n :
              calls[p] \in {"login_ok", "login_fail"} => (p > 1 /\ calls[p - 1] = "connect_ok")
        /\ \A p \in 1..n :
              calls[p] \in {"cwd_ok", "cwd_fail"} => (p > 1 /\ calls[p - 1] = "login_ok")
        /\ mpc = "aborted" => ret \in {"True", "False"}

\* The transfer succeeded at the third attempt, after two re-establishments.
C5_Witness ==
    /\ ret = "True"
    /\ calls = <<"retr_fail", "connect_ok", "login_ok", "cwd_ok",
                 "retr_fail", "connect_ok", "login_ok", "cwd_ok", "retr_ok">>

\* C15: whenever retrieve_with_retry has returned True, the sink holds
\* exactly the bytes of one complete transfer of the requested file, also
\* when earlier attempts failed after writing part of the data to the sink;
\* so intact data fetched with a retry has a matching checksum.
C15_SinkHoldsOneTransfer ==
    /\ Has(events, "md5_ok") => md5_data = Md5Text(md5_form)
    /\ Has(events, "data_ok") => compressed_data = served
    /\ (Has(events, "data_ok") /\ served = DataIntact) => Has(events, "md5_equal")

(***************************************************************************)
(* ----------------- generate_answer and check_citations ----------------- *)
(* A text is a sequence of tokens: "PMID" is the string "PMID: ", "REF" the *)
(* string "\nReferences:", "nl" a line break, "1" and "2" decimal digits;  *)
(* every other token is text that is none of these.                        *)
(***************************************************************************)
Digits == {"1", "2"}

CompletionTokens == {"PMID", "1", "2", "x", "REF"}

Completions == UNION {[1..n -> CompletionTokens] : n \in 0..MaxCompletionLen}

\* The second completion of a pair of calls.
OtherCompletions == {<<>>, <<"x">>, <<"PMID", "2">>, <<"x", "REF", "PMID", "1">>}

\* The citation-map entry of the article with identifier `pmid`, keyed
\* "[PMID: <pmid>, <author> et al., <year>]".
Entry(pmid, year) ==
    [key |-> <<"[", "PMID">> \o pmid \o <<", ", "author", ", ">> \o year \o <<"]">>,
     title |-> <<"title">>,
     year |-> year,
     pmid |-> pmid]

Entries == {Entry(<<"1">>, <<"2", "1">>), Entry(<<"1", "2">>, <<"1">>)}

\* Maps of at most two entries, in either order.
CitationMaps ==
    {<<>>} \cup {<<e>> : e \in Entries}
           \cup {m \in Entries \X Entries : m[1] # m[2]}

\* search_qdrant's evidence text: empty exactly when nothing was retrieved
Evidence(cits) == IF cits = <<>> THEN <<>> ELSE <<"x">>

\* Search.py:166
Sentinel == <<"sorry">>

\* Search.py:187  one line of the reference section
ReferenceLine(e) ==
    e.key \o <<": ">> \o e.title \o <<" (">> \o e.year \o <<"), ", "PMID">> \o e.pmid

\* "\n".join(lines)
RECURSIVE JoinLines(_)
JoinLines(lines) ==
    IF lines = <<>> THEN <<>>
    ELSE IF Len(lines) = 1 THEN lines[1]
    ELSE lines[1] \o <<"nl">> \o JoinLines(Tail(lines))

ReferencesFromAnswer(completed, cits) ==
    <<"nl", "REF", "nl">> \o <<"PMID">> \o UpTo(completed, {"REF"})

\* Search.py:185-190
reference_section(completed, cits) ==
    <<"nl", "REF", "nl">> \o JoinLines([i \in 1..Len(cits) |-> ReferenceLine(cits[i])])

\* Search.py:157-195
generate_answer(abstracts, cits, completed) ==
    IF abstracts = <<>> THEN Sentinel
    ELSE completed \o reference_section(completed, cits)

WholeOutput(text) == text

\* Citation_Checker.py:6  llm_output.split("\nReferences:")[0]
output_no_refs(text) == UpTo(text, {"REF"})

\* The digits a text starts with
DigitRun(text) ==
    LET others == {i \in 1..Len(text) : text[i] \notin Digits}
        first == IF others = {} THEN Len(text) + 1
                 ELSE CHOOSE i \in others : \A j \in others : i <= j
    IN  SubSeq(text, 1, first - 1)

\* Citation_Checker.py:8  re.findall(r"PMID: (\d+)", text), as a set
RECURSIVE FindPmids(_)
FindPmids(text) ==
    IF text = <<>> THEN {}
    ELSE IF Head(text) = "PMID" /\ DigitRun(Tail(text)) # <<>>
    THEN {DigitRun(Tail(text))}
            \cup FindPmids(SubSeq(text, Len(DigitRun(Tail(text))) + 2, Len(text)))
    ELSE FindPmids(Tail(text))

\* Citation_Checker.py:4-14
check_citations(llm_output, cits) ==
    LET referenced_pmids == FindPmids(output_no_refs(llm_output))
        citation_pmids == {cits[i].pmid : i \in 1..Len(cits)}
        diff == referenced_pmids \ citation_pmids
    IN  IF diff = {} THEN NoResult ELSE [is_none |-> FALSE, ids |-> diff]

InitCite ==
    /\ IdleKey
    /\ IdleSearch
    /\ IdleIngest
    /\ IdleMain
    /\ citations \in CitationMaps
    /\ completion \in Completions
    /\ completion2 \in OtherCompletions
    /\ answer = <<>>
    /\ answer2 = <<>>
    /\ difference = NoResult
    /\ cpc = "start"

\* Two calls of generate_answer with the same citation map.
GenerateAnswer ==
    /\ cpc = "start"
    /\ answer' = generate_answer(Evidence(citations), citations, completion)
    /\ answer2' = generate_answer(Evidence(citations), citations, completion2)
    /\ cpc' = "answered"
    /\ UNCHANGED <<citations, completion, completion2, difference>>
    /\ UNCHANGED <<keyVars, searchVars, ingestVars, mainVars>>

\* check_citations on the stored answer, Citation_Checker.py:23-26.
CheckCitations ==
    /\ cpc = "answered"
    /\ difference' = check_citations(answer, citations)
    /\ cpc' = "checked"
    /\ UNCHANGED <<citations, completion, completion2, answer, answer2>>
    /\ UNCHANGED <<keyVars, searchVars, ingestVars, mainVars>>

NextCite == GenerateAnswer \/ CheckCitations

SpecCite == InitCite /\ [][NextCite]_vars

(***************************************************************************)
(* Claims about generate_answer and check_citations.                       *)
(***************************************************************************)
\* The number of tokens before the first reference-section marker.
BodyEnd(text) ==
    LET marks == {i \in 1..Len(text) : text[i] = "REF"}
    IN  IF marks = {} THEN Len(text)
        ELSE (CHOOSE i \in marks : \A j \in marks : i <= j) - 1

\* The identifiers `PMID: <digits>` among the first n tokens of a text: every
\* maximal run of digits that directly follows "PMID: ".
IdsWithin(text, n) ==
    {SubSeq(text, ij[1] + 1, ij[2]) :
        ij \in {p \in (1..n) \X (1..n) :
                  /\ p[1] < p[2]
                  /\ text[p[1]] = "PMID"
                  /\ \A k \in (p[1] + 1)..p[2] : text[k] \in Digits
                  /\ (p[2] = n \/ text[p[2] + 1] \notin Digits)}}

MapPmids == {citations[i].pmid : i \in 1..Len(citations)}

\* C7: check_citations returns None exactly when every identifier matched by
\* `PMID: <digits>` before the reference-section marker is the pmid of a
\* citation-map entry; otherwise it returns exactly the identifiers of the
\* body that the map lacks; an identifier that occurs only after the marker
\* is never reported.
C7_ReportsBodyIdsOutsideMap ==
    cpc = "checked" =>
        LET body == IdsWithin(answer, BodyEnd(answer))
            anywhere == IdsWithin(answer, Len(answer))
        IN  /\ difference.is_none <=> body \subseteq MapPmids
            /\ ~difference.is_none => difference.ids = body \ MapPmids
            /\ difference.is_none => difference.ids = {}
            /\ \A id \in anywhere \ body : id \notin difference.ids

\* The body cites an identifier of the map and a fabricated one, and the
\* fabricated one alone is reported.
C7_Witness ==
    /\ cpc = "checked"
    /\ Len(citations) = 1
    /\ citations[1].pmid = <<"1">>
    /\ completion = <<"PMID", "1", "PMID", "2">>
    /\ difference = [is_none |-> FALSE, ids |-> {<<"2">>}]

\* C14: for an answer that generate_answer produced from a completion and a
\* citation map, check_citations reports every identifier `PMID: <digits>`
\* that occurs anywhere in the completion and is not the pmid of a map entry,
\* also when the completion itself holds the reference-section marker.
C14_ReportsEveryCompletionId ==
    (cpc = "checked" /\ answer # Sentinel) =>
        \A id \in IdsWithin(completion, Len(completion)) \ MapPmids :
            ~difference.is_none /\ id \in difference.ids

\* The line the claim C8 gives for a citation-map entry.
ClaimedLine(e) ==
    e.key \o <<": ">> \o e.title \o <<" (">> \o e.year \o <<"), ", "PMID">> \o e.pmid

\* text.split("\n"), for a text that is not empty
RECURSIVE SplitLines(_)
SplitLines(text) ==
    LET line == UpTo(text, {"nl"})
    IN  IF Len(line) = Len(text) THEN <<line>>
        ELSE <<line>> \o SplitLines(SubSeq(text, Len(line) + 2, Len(text)))

\* The text after the last reference-section marker of a text that holds one.
AfterLastMarker(text) ==
    LET marks == {i \in 1..Len(text) : text[i] = "REF"}
        last == CHOOSE i \in marks : \A j \in marks : j <= i
    IN  SubSeq(text, last + 1, Len(text))

\* C8: for non-empty evidence, two calls of generate_answer with the same
\* citation map and different completions return answers with the same
\* reference section: what follows the completion is the marker
\* "\nReferences:\n" and then exactly one line
\* `<key>: <title> (<year>), PMID: <pmid>` per entry of the map, in map order.
C8_ReferencesFromMapOnly ==
    (cpc # "start" /\ citations # <<>>) =>
        LET refs == SliceFrom(answer, Len(completion))
            refs2 == SliceFrom(answer2, Len(completion2))
        IN  /\ SubSeq(answer, 1, Len(completion)) = completion
            /\ SubSeq(answer2, 1, Len(completion2)) = completion2
            /\ refs = refs2
            /\ SubSeq(refs, 1, 3) = <<"nl", "REF", "nl">>
            /\ SplitLines(SliceFrom(refs, 3)) =
                  [i \in 1..Len(citations) |-> ClaimedLine(citations[i])]
            /\ AfterLastMarker(answer) = SliceFrom(refs, 2)
            /\ AfterLastMarker(answer2) = AfterLastMarker(answer)

\* Two different completions, one of them holding the marker itself, were
\* answered for a map of two entries.
C8_Witness ==
    /\ cpc = "answered"
    /\ Len(citations) = 2
    /\ completion = <<"REF", "PMID", "2">>
    /\ completion2 = <<"x">>
    /\ answer # answer2

(***************************************************************************)
(* ------ article metadata: parse_pubmed_articles, then search_qdrant ----- *)
(* An XML element is a record: `present` tells whether find() returned it, *)
(* `text` is its text.  A text is a sequence of tokens; " " is one blank.  *)
(* Elements that are present carry text.                                   *)
(***************************************************************************)
MaxAuthors == 2       \* most Author elements of one article

NoElement == [present |-> FALSE, text |-> <<>>]

Element(t) == [present |-> TRUE, text |-> t]

TitleElements == {NoElement, Element(<<"T">>)}

YearElements == {NoElement, Element(<<"2", "1">>)}

\* The Journal element: absent, or present with or without a PubDate/Year.
JournalElements ==
    {[present |-> FALSE, Year |-> NoElement]}
        \cup {[present |-> TRUE, Year |-> y] : y \in YearElements}

AuthorElements ==
    [ForeName : {NoElement, Element(<<"F">>)}, LastName : {NoElement, Element(<<"L">>)}]

\* The AuthorList element: absent, or present with up to MaxAuthors authors.
AuthorListElements ==
    {[present |-> FALSE, Author |-> <<>>]}
        \cup {[present |-> TRUE, Author |-> a] :
                a \in UNION {[1..n -> AuthorElements] : n \in 0..MaxAuthors}}

Sources ==
    [PMID : {<<"1">>}, ArticleTitle : TitleElements, Journal : JournalElements,
     AuthorList : AuthorListElements]

\* `element.text if element is not None else ''`
TextOrEmpty(el) == IF el.present THEN el.text ELSE <<>>

\* create_qdrant_database.py:82-116  the article_data of a MedlineCitation
article_metadata(medline_citation) ==
    [PMID |-> medline_citation.PMID,
     Title |-> TextOrEmpty(medline_citation.ArticleTitle),
     Journal |->
        IF medline_citation.Journal.present
        THEN [PubDate |-> [Year |-> TextOrEmpty(medline_citation.Journal.Year)]]
        ELSE [PubDate |-> [Year |-> <<>>]],
     Authors |->
        IF medline_citation.AuthorList.present
        THEN [i \in 1..Len(medline_citation.AuthorList.Author) |->
                [LastName |-> TextOrEmpty(medline_citation.AuthorList.Author[i].LastName),
                 ForeName |-> TextOrEmpty(medline_citation.AuthorList.Author[i].ForeName)]]
        ELSE <<>>]

\* dict.get(key, default)
Get(d, key, default) == IF key \in DOMAIN d THEN d[key] ELSE default

\* create_qdrant_database.py:124-134  generate_payload, the metadata keys
payload_metadata(article_data) ==
    [pmid |-> Get(article_data, "PMID", <<"Unknown">>),
     title |-> Get(article_data, "Title", <<>>),
     authors |-> Get(article_data, "Authors", <<>>),
     journal |-> Get(article_data, "Journal", <<>>)]

UnknownTitle == <<"Unknown Title">>
UnknownYear == <<"Unknown Year">>
UnknownAuthors == <<"Unknown Authors">>
NoPMIDText == <<"No PMID">>

\* str.strip() of a text whose only white space is the blank
RECURSIVE StripBlanks(_)
StripBlanks(text) ==
    IF text = <<>> THEN <<>>
    ELSE IF Head(text) = " " THEN StripBlanks(Tail(text))
    ELSE IF text[Len(text)] = " " THEN StripBlanks(SubSeq(text, 1, Len(text) - 1))
    ELSE text

\* Search.py:121  f"{author.get('ForeName', '')} {author.get('LastName', '')}".strip()
AuthorName(author) ==
    StripBlanks(Get(author, "ForeName", <<>>) \o <<" ">> \o Get(author, "LastName", <<>>))

\* Search.py:119-125  one name per author entry
author_names_of(authors) == [i \in 1..Len(authors) |-> AuthorName(authors[i])]

\* ", ".join(names)
RECURSIVE JoinComma(_)
JoinComma(names) ==
    IF names = <<>> THEN <<>>
    ELSE IF Len(names) = 1 THEN names[1]
    ELSE names[1] \o <<", ">> \o JoinComma(Tail(names))

\* Search.py:113-116  the nested lookup of the publication year
YearOf(result_payload) ==
    Get(Get(Get(result_payload, "journal", <<>>), "PubDate", <<>>), "Year", UnknownYear)

\* Search.py:127-131
CitationKey(result_payload) ==
    LET title == Get(result_payload, "title", UnknownTitle)
        pmid == Get(result_payload, "pmid", NoPMIDText)
        year == YearOf(result_payload)
        author_names == author_names_of(Get(result_payload, "authors", <<>>))
    IN  IF author_names # <<>>
        THEN <<"[", "PMID">> \o pmid \o <<", ">> \o author_names[1]
                \o <<" et al.", ", ">> \o year \o <<"]">>
        ELSE <<"[", "PMID">> \o pmid \o <<", ">> \o title \o <<", ">> \o year \o <<"]">>

\* Search.py:134-141
CitationEntry(result_payload) ==
    LET author_names == author_names_of(Get(result_payload, "authors", <<>>))
    IN  [title |-> Get(result_payload, "title", UnknownTitle),
         authors |-> IF author_names # <<>> THEN JoinComma(author_names)
                     ELSE UnknownAuthors,
         year |-> YearOf(result_payload),
         pmid |-> Get(result_payload, "pmid", NoPMIDText)]

InitCitationMap ==
    /\ IdleSearch
    /\ IdleIngest
    /\ IdleMain
    /\ IdleCite
    /\ source \in Sources
    /\ stored_payload = <<>>
    /\ citation_key = <<>>
    /\ citation = <<>>
    /\ kpc = "start"

\* The write path: parse_pubmed_articles builds the payload and upserts it.
StoreMetadata ==
    /\ kpc = "start"
    /\ stored_payload' = payload_metadata(article_metadata(source))
    /\ kpc' = "stored"
    /\ UNCHANGED <<source, citation_key, citation>>
    /\ UNCHANGED <<searchVars, ingestVars, mainVars, citeVars>>

\* The read path: search_qdrant derives the key and the entry of the result.
BuildCitation ==
    /\ kpc = "stored"
    /\ citation_key' = CitationKey(stored_payload)
    /\ citation' = CitationEntry(stored_payload)
    /\ kpc' = "built"
    /\ UNCHANGED <<source, stored_payload>>
    /\ UNCHANGED <<searchVars, ingestVars, mainVars, citeVars>>

NextCitationMap == StoreMetadata \/ BuildCitation

SpecCitationMap == InitCitationMap /\ [][NextCitationMap]_vars

(***************************************************************************)
(* Claims about the article metadata.                                      *)
(***************************************************************************)
SourceHasYear == source.Journal.present /\ source.Journal.Year.present

\* The tokens that close a citation key whose year is `year`.
KeyTail(year) == <<", ">> \o year \o <<"]">>

EndsWith(text, tail) ==
    /\ Len(text) >= Len(tail)
    /\ SubSeq(text, Len(text) - Len(tail) + 1, Len(text)) = tail

\* C11: for an ingested article whose source has no publication year, the
\* citation key and the citation-map entry built by search_qdrant carry the
\* year "Unknown Year"; for an ingested article whose source has no title,
\* the entry carries the title "Unknown Title".
C11_DefaultsSurviveIngest ==
    kpc = "built" =>
        /\ ~SourceHasYear =>
              (citation.year = UnknownYear /\ EndsWith(citation_key, KeyTail(UnknownYear)))
        /\ ~source.ArticleTitle.present => citation.title = UnknownTitle

\* The names of the author entries that have a first or a last name.
NamedAuthors ==
    SelectSeq(author_names_of(stored_payload.authors), LAMBDA name : name # <<>>)

TitleKey == <<"[", "PMID">> \o citation.pmid \o <<", ">> \o citation.title \o KeyTail(citation.year)

AuthorKey(first_author) ==
    <<"[", "PMID">> \o citation.pmid \o <<", ">> \o first_author
        \o <<" et al.">> \o KeyTail(citation.year)

\* C12: author entries whose first and last names are both empty are skipped:
\* a result without a named author gets the key "[PMID: <id>, <title>, <year>]"
\* and the authors "Unknown Authors", and a result with a named author gets
\* the author-based key with the first non-empty name.
C12_EmptyAuthorsSkipped ==
    kpc = "built" =>
        IF NamedAuthors = <<>>
        THEN citation_key = TitleKey /\ citation.authors = UnknownAuthors
        ELSE citation_key = AuthorKey(NamedAuthors[1])

=============================================================================
